---- MODULE Spec2Model ----
(***************************************************************************)
(* MIT Solve evaluator: the in-memory record store (MemStorage), the CSV   *)
(* ingestion paths (startup load and manual upload), the sliding-window    *)
(* RateLimiter, the POST /api/evaluate/:id handler and the batch           *)
(* orchestrator of the client (BatchEvaluation.evaluateAll).               *)
(***************************************************************************)
EXTENDS Integers, Sequences, FiniteSets, TLC

VARIABLES
    solutions,          \* MemStorage.solutions: Map<number, Solution>, in insertion order
    solutionId,         \* MemStorage.solutionId: next internal id
    evaluations,        \* MemStorage.evaluations: Map<number, Evaluation>, in insertion order
    evaluationId,       \* MemStorage.evaluationId: next evaluation id
    phase,              \* server start-up: "boot", "loading", "listening"
    ingest,             \* the ingestion run in progress (startup load or upload)
    opLog,              \* history: the last two createOrUpdateSolution calls
    clearLog,           \* history: the last clearAllSolutions call and the upserts since
    startupLog,         \* the lines the start-up load has logged
    now,                \* Date.now(), in milliseconds
    requestTimestamps,  \* RateLimiter.requestTimestamps
    req,                \* the evaluate handlers in flight, one per slot
    admitLog,           \* history: times of the admissions by the limiter less than timeWindow ago
    invokeLog,          \* history: times of the invocations of the external model less than timeWindow ago
    storeLog,           \* history: the storeEvaluation calls, in call order
    batch,              \* BatchEvaluation: the component state and the evaluateAll run
    runs                \* the upload handlers in flight, one per slot

storeVars == <<solutions, solutionId, phase, ingest, opLog, clearLog, startupLog>>
evalVars  == <<evaluations, evaluationId, now, requestTimestamps, req,
               admitLog, invokeLog, storeLog>>
clientVars == <<batch>>
runVars == <<runs>>
vars == <<solutions, solutionId, evaluations, evaluationId, phase, ingest, opLog,
          clearLog, startupLog,
          now, requestTimestamps, req, admitLog, invokeLog, storeLog, batch, runs>>

----------------------------------------------------------------------------
(* JavaScript values *)

Undefined == "undefined"
Null == "null"

\* a ?? b
Coalesce(a, b) == IF a = Undefined \/ a = Null THEN b ELSE a

\* a || b on strings: the empty string is falsy too
OrElse(a, b) == IF a = Undefined \/ a = Null \/ a = "" THEN b ELSE a

\* !a on strings
Falsy(a) == a = Undefined \/ a = Null \/ a = ""

----------------------------------------------------------------------------
(* A JavaScript Map, kept as the sequence of its entries in insertion order *)

MapHas(m, k) == \E i \in 1..Len(m) : m[i].key = k

\* Map.set: an existing key keeps its position, a new key is appended
MapSet(m, k, v) ==
    IF MapHas(m, k)
    THEN [i \in 1..Len(m) |-> IF m[i].key = k THEN [key |-> k, value |-> v] ELSE m[i]]
    ELSE Append(m, [key |-> k, value |-> v])

\* Array.from(map.values())
MapValues(m) == [i \in 1..Len(m) |-> m[i].value]

\* Array.prototype.find, given the elements that satisfy the predicate in
\* array order: the first of them, as <<element>>, or <<>> for undefined
First(matches) == IF matches = <<>> THEN <<>> ELSE <<matches[1]>>

----------------------------------------------------------------------------
(* Solutions *)

Fields ==
    {"challengeName", "summary", "headquarters", "organizationType",
     "problemStatement", "solutionDescription", "targetBeneficiaries",
     "technologiesUsed", "websiteLinks", "operatingCountries", "teamSize",
     "duration", "diversityApproaches", "businessModel", "serviceDeliveryModel",
     "financialSustainability"}

\* the natural keys and field values the inputs are drawn from
Keys == {"S1", "S2"}
Vals == {"a", "b"}
\* the sets of fields an input carries (the others are undefined)
PresentSets == {Fields, {}, {"summary"}, Fields \ {"summary"}}

MkInsert(k, P, v) ==
    [f \in Fields \cup {"solutionId"} |->
        IF f = "solutionId" THEN k ELSE IF f \in P THEN v ELSE Undefined]

InsertSolutions == {MkInsert(k, P, v) : k \in Keys, P \in PresentSets, v \in Vals}

\* MemStorage.getAllSolutions
getAllSolutions(sols) == MapValues(sols)

\* MemStorage.getSolutionById
getSolutionById(sols, key) ==
    LET IsKey(solution) == solution["solutionId"] = key
    IN  First(SelectSeq(MapValues(sols), IsKey))

\* an update that merges, { ...existingSolution, ...insertSolution }: a field
\* missing from the input keeps the old value
UpdatedSolution_merge(existingSolution, insertSolution) ==
    [f \in Fields \cup {"id", "solutionId"} |->
        IF f = "id" THEN existingSolution["id"]
        ELSE IF f = "solutionId" THEN insertSolution["solutionId"]
        ELSE Coalesce(insertSolution[f], existingSolution[f])]

\* an update that gives the record another internal id
UpdatedSolution_newId(existingSolution, insertSolution) ==
    [f \in Fields \cup {"id", "solutionId"} |->
        IF f = "id" THEN existingSolution["id"] + 1
        ELSE IF f = "solutionId" THEN insertSolution["solutionId"]
        ELSE Coalesce(insertSolution[f], Null)]

\* the update branch of createOrUpdateSolution: the record written over the existing one
UpdatedSolution(existingSolution, insertSolution) ==
    [f \in Fields \cup {"id", "solutionId"} |->
        IF f = "id" THEN existingSolution["id"]
        ELSE IF f = "solutionId" THEN insertSolution["solutionId"]
        ELSE Coalesce(insertSolution[f], Null)]

\* the create branch of createOrUpdateSolution: the new record
NewSolution(id, insertSolution) ==
    [f \in Fields \cup {"id", "solutionId"} |->
        IF f = "id" THEN id
        ELSE IF f = "solutionId" THEN insertSolution["solutionId"]
        ELSE Coalesce(insertSolution[f], Null)]

\* an upsert without the lookup: every call creates a record
createOrUpdateSolution_alwaysCreates(st, insertSolution) ==
    LET id == st.solutionId
        solution == NewSolution(id, insertSolution)
    IN  [solutions  |-> MapSet(st.solutions, id, solution),
         solutionId |-> st.solutionId + 1,
         result     |-> solution,
         created    |-> TRUE]

\* MemStorage.createOrUpdateSolution after its await: the rest of the
\* method on the store st, existingSolution being what getSolutionById
\* returned before the await
WriteSolution(st, existingSolution, insertSolution) ==
    IF existingSolution # <<>>
    THEN LET updatedSolution == UpdatedSolution(existingSolution[1], insertSolution)
         IN  [solutions  |-> MapSet(st.solutions, existingSolution[1]["id"], updatedSolution),
              solutionId |-> st.solutionId,
              result     |-> updatedSolution,
              created    |-> FALSE]
    ELSE LET id == st.solutionId
             solution == NewSolution(id, insertSolution)
         IN  [solutions  |-> MapSet(st.solutions, id, solution),
              solutionId |-> st.solutionId + 1,
              result     |-> solution,
              created    |-> TRUE]

\* MemStorage.createOrUpdateSolution, run to completion on the store st
createOrUpdateSolution(st, insertSolution) ==
    WriteSolution(st, getSolutionById(st.solutions, insertSolution["solutionId"]),
                  insertSolution)

\* for (const solution of list) await storage.createOrUpdateSolution(solution)
RECURSIVE SaveAll(_, _)
SaveAll(st, list) ==
    IF list = <<>> THEN st
    ELSE LET r == createOrUpdateSolution(st, Head(list))
         IN  SaveAll([solutions |-> r.solutions, solutionId |-> r.solutionId], Tail(list))

\* a clear that empties the collection and leaves the id counter as it is
clearAllSolutions_keepsCounter(st) ==
    [solutions |-> <<>>, solutionId |-> st.solutionId]

\* MemStorage.clearAllSolutions on the store st
clearAllSolutions(st) ==
    [solutions |-> <<>>, solutionId |-> 1]

\* history: no clearAllSolutions call to remember
NoClear == [cleared |-> FALSE, records |-> 0, nextId |-> 0]

----------------------------------------------------------------------------
(* CSV ingestion *)

\* the longest file
MaxRows == 2

\* a parsed CSV record: one value per mapped column, undefined when the column is absent
RowKeys == Keys \cup {""}
CsvRecords == {MkInsert(k, Fields, v) : k \in RowKeys, v \in Vals}
              \cup {MkInsert("S1", {"summary"}, "a")}

RECURSIVE SeqsUpTo(_, _)
SeqsUpTo(S, n) ==
    IF n = 0 THEN {<<>>}
    ELSE LET shorter == SeqsUpTo(S, n - 1)
         IN  shorter \cup {Append(q, x) : q \in {t \in shorter : Len(t) = n - 1}, x \in S}

CsvFiles == SeqsUpTo(CsvRecords, MaxRows) \ {<<>>}

\* the column mapping of both ingestion paths: data[column] || ""
Transform(record) == [f \in Fields \cup {"solutionId"} |-> OrElse(record[f], "")]

IdleIngest == [kind |-> "none", pc |-> "idle", file |-> <<>>, rows |-> <<>>,
               processedSolutions |-> <<>>, solutions |-> <<>>, status |-> 0]

\* a load that rejects when the file is absent: the start-up sequence stops
StartupMissing_rejects ==
    /\ phase = "boot"
    /\ phase' = "crashed"
    /\ startupLog' = Append(startupLog, "CSV file not found")
    /\ UNCHANGED <<solutions, solutionId, ingest, opLog, clearLog>>
    /\ UNCHANGED <<evalVars, clientVars, runVars>>

\* loadSolutionsFromCSV: the file is absent; the start-up sequence goes on to
\* registerRoutes and server.listen
StartupMissing ==
    /\ phase = "boot"
    /\ phase' = "listening"
    /\ startupLog' = Append(startupLog, "CSV file not found")
    /\ UNCHANGED <<solutions, solutionId, ingest, opLog, clearLog>>
    /\ UNCHANGED <<evalVars, clientVars, runVars>>

\* loadSolutionsFromCSV: the file exists and the parser is set up
StartupBegin(file) ==
    /\ phase = "boot"
    /\ phase' = "loading"
    /\ ingest' = [IdleIngest EXCEPT !.kind = "startup", !.pc = "parsing",
                                    !.file = file, !.rows = file]
    /\ startupLog' = Append(startupLog, "Loading solutions from CSV file")
    /\ UNCHANGED <<solutions, solutionId, opLog, clearLog>>
    /\ UNCHANGED <<evalVars, clientVars, runVars>>

\* loadSolutionsFromCSV, parser.on('readable'): one record of the while loop
StartupReadable ==
    /\ ingest.kind = "startup" /\ ingest.pc = "parsing" /\ ingest.rows # <<>>
    /\ LET record == Head(ingest.rows)
           solution == Transform(record)
       IN  ingest' =
             IF Falsy(record["solutionId"])
                \/ MapHas(ingest.processedSolutions, record["solutionId"])
             THEN [ingest EXCEPT !.rows = Tail(@)]
             ELSE [ingest EXCEPT !.rows = Tail(@),
                     !.processedSolutions = MapSet(@, solution["solutionId"], solution)]
    /\ UNCHANGED <<solutions, solutionId, phase, opLog, clearLog, startupLog>>
    /\ UNCHANGED <<evalVars, clientVars, runVars>>

\* loadSolutionsFromCSV, parser.on('error'): log and reject; the start-up
\* sequence awaits the load outside any try, so the rejection ends it before
\* registerRoutes and server.listen
StartupError ==
    /\ ingest.kind = "startup" /\ ingest.pc = "parsing"
    /\ startupLog' = Append(startupLog, "Error parsing CSV")
    /\ ingest' = [ingest EXCEPT !.pc = "failed"]
    /\ phase' = "crashed"
    /\ UNCHANGED <<solutions, solutionId, opLog, clearLog>>
    /\ UNCHANGED <<evalVars, clientVars, runVars>>

\* loadSolutionsFromCSV, parser.on('end'): save the unique solutions and resolve
StartupEnd ==
    /\ ingest.kind = "startup" /\ ingest.pc = "parsing" /\ ingest.rows = <<>>
    /\ LET st == SaveAll([solutions |-> solutions, solutionId |-> solutionId],
                         MapValues(ingest.processedSolutions))
       IN  /\ solutions' = st.solutions
           /\ solutionId' = st.solutionId
    /\ opLog' = <<>>
    /\ clearLog' = NoClear
    /\ startupLog' = startupLog \o <<"Parsed unique solutions from CSV",
                                      "Successfully loaded solutions from CSV file">>
    /\ ingest' = IdleIngest
    /\ phase' = "listening"
    /\ UNCHANGED <<evalVars, clientVars, runVars>>

\* POST /api/solutions/upload: a file was uploaded and the parser is set up
UploadBegin(file) ==
    /\ phase = "listening" /\ ingest.pc \in {"idle", "failed"}
    /\ ingest' = [IdleIngest EXCEPT !.kind = "upload", !.pc = "parsing",
                                    !.file = file, !.rows = file]
    /\ UNCHANGED <<solutions, solutionId, phase, opLog, clearLog, startupLog>>
    /\ UNCHANGED <<evalVars, clientVars, runVars>>

\* POST /api/solutions/upload, .on("data"): one record
UploadData ==
    /\ ingest.kind = "upload" /\ ingest.pc = "parsing" /\ ingest.rows # <<>>
    /\ ingest' = [ingest EXCEPT !.rows = Tail(@),
                                !.solutions = Append(@, Transform(Head(ingest.rows)))]
    /\ UNCHANGED <<solutions, solutionId, phase, opLog, clearLog, startupLog>>
    /\ UNCHANGED <<evalVars, clientVars, runVars>>

\* POST /api/solutions/upload, .on("end"): save every solution and answer
UploadEnd ==
    /\ ingest.kind = "upload" /\ ingest.pc = "parsing" /\ ingest.rows = <<>>
    /\ LET st == SaveAll([solutions |-> solutions, solutionId |-> solutionId],
                         ingest.solutions)
       IN  /\ solutions' = st.solutions
           /\ solutionId' = st.solutionId
    /\ opLog' = <<>>
    /\ clearLog' = NoClear
    /\ ingest' = [IdleIngest EXCEPT !.status = 200]
    /\ UNCHANGED <<phase, startupLog>>
    /\ UNCHANGED <<evalVars, clientVars, runVars>>

\* an error handler that saves the records parsed so far before it answers
UploadError_savesParsed ==
    /\ ingest.kind = "upload" /\ ingest.pc = "parsing"
    /\ LET st == SaveAll([solutions |-> solutions, solutionId |-> solutionId],
                         ingest.solutions)
       IN  /\ solutions' = st.solutions
           /\ solutionId' = st.solutionId
    /\ ingest' = [ingest EXCEPT !.pc = "failed", !.status = 500]
    /\ UNCHANGED <<phase, opLog, clearLog, startupLog>>
    /\ UNCHANGED <<evalVars, clientVars, runVars>>

\* POST /api/solutions/upload, .on("error"): the parser failed; answer 500
\* "Failed to parse CSV". The stream emits no "end" afterwards, so the
\* records pushed by .on("data") stay in the handler's array
UploadError ==
    /\ ingest.kind = "upload" /\ ingest.pc = "parsing"
    /\ ingest' = [ingest EXCEPT !.pc = "failed", !.status = 500]
    /\ UNCHANGED <<solutions, solutionId, phase, opLog, clearLog, startupLog>>
    /\ UNCHANGED <<evalVars, clientVars, runVars>>

----------------------------------------------------------------------------
(* Uploads in flight together *)

\* the upload handlers that can be in flight together
NRuns == 2
Runs == 1..NRuns

\* the uploaded files: one or two records, each with every column
UploadedFiles ==
    {<<MkInsert("S1", Fields, "a")>>,
     <<MkInsert("S1", Fields, "b")>>,
     <<MkInsert("S2", Fields, "b")>>,
     <<MkInsert("S1", Fields, "a"), MkInsert("S1", Fields, "b")>>,
     <<MkInsert("S2", Fields, "a"), MkInsert("S1", Fields, "a")>>}

\* an upload handler: its position, its file, the records the parser has
\* yet to emit, its solutions array, the part of the array the for loop of the
\* "end" handler has yet to save, and the existingSolution of the
\* createOrUpdateSolution call that is suspended at its await;
\* history: the records it created, and whether another upload was in
\* flight while it was
IdleRun == [pc |-> "idle", file |-> <<>>, rows |-> <<>>, solutions |-> <<>>,
            todo |-> <<>>, existingSolution |-> <<>>,
            created |-> 0, overlapped |-> FALSE]

\* an event loop that hands the next event to its handler while a
\* continuation is still queued
MayDispatch_anytime == TRUE

\* the event loop takes the next I/O event only when no continuation is
\* queued: the promise createOrUpdateSolution awaits is the one of
\* getSolutionById, an async method that returns without I/O, so it is
\* settled already and the continuation is a microtask, and so is that of
\* the await in the for loop
MayDispatch == \A u \in Runs : runs[u].pc # "awaiting"

\* another upload is in flight
Overlaps(u) == \E v \in Runs \ {u} : runs[v].pc \in {"parsing", "awaiting"}

\* POST /api/solutions/upload: a file was uploaded and the parser is set up
OverlapBegin(u, file) ==
    /\ MayDispatch
    /\ phase = "listening"
    /\ runs[u].pc \in {"idle", "answered"}
    /\ runs' = [v \in Runs |->
                  IF v = u
                  THEN [IdleRun EXCEPT !.pc = "parsing", !.file = file, !.rows = file,
                                       !.overlapped = Overlaps(u)]
                  ELSE IF runs[v].pc \in {"parsing", "awaiting"}
                  THEN [runs[v] EXCEPT !.overlapped = TRUE]
                  ELSE runs[v]]
    /\ UNCHANGED <<storeVars, evalVars, clientVars>>

\* .on("data"): one record
OverlapData(u) ==
    /\ MayDispatch
    /\ runs[u].pc = "parsing" /\ runs[u].rows # <<>>
    /\ runs' = [runs EXCEPT ![u].rows = Tail(@),
                            ![u].solutions = Append(@, Transform(Head(runs[u].rows)))]
    /\ UNCHANGED <<storeVars, evalVars, clientVars>>

\* .on("end"): the for loop is entered, createOrUpdateSolution is called for
\* the first solution and runs up to its await of getSolutionById
OverlapEnd(u) ==
    /\ MayDispatch
    /\ runs[u].pc = "parsing" /\ runs[u].rows = <<>>
    /\ runs' = [runs EXCEPT
                  ![u].pc = "awaiting",
                  ![u].todo = runs[u].solutions,
                  ![u].existingSolution =
                      getSolutionById(solutions, runs[u].solutions[1]["solutionId"])]
    /\ UNCHANGED <<storeVars, evalVars, clientVars>>

\* the continuation of createOrUpdateSolution: the record is written; then
\* the for loop goes round, to the await of the next createOrUpdateSolution
\* call or to res.json
UpsertResume(u) ==
    /\ runs[u].pc = "awaiting"
    /\ LET r == WriteSolution([solutions |-> solutions, solutionId |-> solutionId],
                              runs[u].existingSolution, Head(runs[u].todo))
           rest == Tail(runs[u].todo)
           done == [runs[u] EXCEPT !.created = @ + (IF r.created THEN 1 ELSE 0),
                                   !.todo = rest,
                                   !.existingSolution = <<>>]
       IN  /\ solutions' = r.solutions
           /\ solutionId' = r.solutionId
           /\ runs' = [runs EXCEPT ![u] =
                         IF rest = <<>>
                         THEN [done EXCEPT !.pc = "answered"]
                         ELSE [done EXCEPT !.existingSolution =
                                   getSolutionById(r.solutions, rest[1]["solutionId"])]]
    /\ UNCHANGED <<phase, ingest, opLog, clearLog, startupLog>>
    /\ UNCHANGED <<evalVars, clientVars>>

----------------------------------------------------------------------------
(* Calls of the storage interface *)

\* history: keep the last two calls, each with its input, whether it
\* created the record, and the internal id of the record it returned
Logged(log, insertSolution, r) ==
    LET e == [input |-> insertSolution, created |-> r.created, id |-> r.result["id"]]
    IN  IF Len(log) < 2 THEN Append(log, e) ELSE <<log[2], e>>

\* storage.createOrUpdateSolution(insertSolution), run to completion
CreateOrUpdateSolution(insertSolution) ==
    /\ LET r == createOrUpdateSolution([solutions |-> solutions, solutionId |-> solutionId],
                                       insertSolution)
       IN  /\ solutions' = r.solutions
           /\ solutionId' = r.solutionId
           /\ opLog' = Logged(opLog, insertSolution, r)
    /\ clearLog' = IF opLog = <<>> THEN clearLog ELSE NoClear
    /\ UNCHANGED <<phase, ingest, startupLog>>
    /\ UNCHANGED <<evalVars, clientVars, runVars>>

\* storage.clearAllSolutions()
ClearAllSolutions ==
    /\ LET st == clearAllSolutions([solutions |-> solutions, solutionId |-> solutionId])
       IN  /\ solutions' = st.solutions
           /\ solutionId' = st.solutionId
    /\ opLog' = <<>>
    /\ clearLog' = [cleared |-> TRUE, records |-> Len(solutions), nextId |-> solutionId]
    /\ UNCHANGED <<phase, ingest, startupLog>>
    /\ UNCHANGED <<evalVars, clientVars, runVars>>

----------------------------------------------------------------------------
(* RateLimiter *)

\* new RateLimiter(5, 60)
maxRequests == 5
timeWindowSeconds == 60
timeWindow == timeWindowSeconds * 1000

\* the clock advances in steps of TickMs up to MaxTime
TickMs == 30000
MaxTime == 90000

Max(a, b) == IF a >= b THEN a ELSE b

\* Math.floor(x / 1000) in place of Math.ceil
CeilSeconds_floor(x) == x \div 1000

\* Math.ceil(x / 1000) for x >= 0
CeilSeconds(x) == (x + 999) \div 1000

\* the timestamps isRateLimited() keeps at time t
Unexpired(ts, t) ==
    LET Keep(timestamp) == t - timestamp < timeWindow
    IN  SelectSeq(ts, Keep)

\* a limiter that never removes a timestamp
isRateLimited_noPurge(ts, t) ==
    IF Len(ts) >= maxRequests
    THEN [requestTimestamps |-> ts, result |-> TRUE]
    ELSE [requestTimestamps |-> Append(ts, t), result |-> FALSE]

\* a limiter that records the timestamp before it checks the count
isRateLimited_recordsRejected(ts, t) ==
    LET kept == Append(Unexpired(ts, t), t)
    IN  [requestTimestamps |-> kept, result |-> Len(kept) > maxRequests]

\* a limiter that compares with > in place of >=
isRateLimited_offByOne(ts, t) ==
    LET kept == Unexpired(ts, t)
    IN  IF Len(kept) > maxRequests
        THEN [requestTimestamps |-> kept, result |-> TRUE]
        ELSE [requestTimestamps |-> Append(kept, t), result |-> FALSE]

\* RateLimiter.isRateLimited at Date.now() = t
isRateLimited(ts, t) ==
    LET kept == Unexpired(ts, t)
    IN  IF Len(kept) >= maxRequests
        THEN [requestTimestamps |-> kept, result |-> TRUE]
        ELSE [requestTimestamps |-> Append(kept, t), result |-> FALSE]

\* RateLimiter.getTimeToWait at Date.now() = t
getTimeToWait(ts, t) ==
    IF Len(ts) = 0 THEN 0
    ELSE LET oldestTimestamp == ts[1]
             timeToWait == timeWindow - (t - oldestTimestamp)
         IN  Max(0, timeToWait)

\* history: the events of log that lie less than timeWindow before t
Recent(log, t) ==
    LET Keep(at) == t - at < timeWindow
    IN  SelectSeq(log, Keep)

\* time passes up to the instant t
Advance(t) ==
    /\ now < t /\ t <= MaxTime
    /\ now' = t
    /\ admitLog' = Recent(admitLog, t)
    /\ invokeLog' = Recent(invokeLog, t)
    /\ UNCHANGED <<evaluations, evaluationId, requestTimestamps, req, storeLog>>
    /\ UNCHANGED <<storeVars, clientVars, runVars>>

\* time passes
Tick ==
    /\ now + TickMs <= MaxTime
    /\ now' = now + TickMs
    /\ admitLog' = Recent(admitLog, now')
    /\ invokeLog' = Recent(invokeLog, now')
    /\ UNCHANGED <<evaluations, evaluationId, requestTimestamps, req, storeLog>>
    /\ UNCHANGED <<storeVars, clientVars, runVars>>

----------------------------------------------------------------------------
(* The answer of the external model *)

\* the number of screening criteria
NumCriteria == 5

\* a criterion of the parsed answer; name and reasoning are kept by their
\* JavaScript type, id by its type and value
Criterion(id, idType, result) ==
    [id |-> id, idType |-> idType, name |-> "string", result |-> result,
     reasoning |-> "string"]

\* the criteria arrays the answers are drawn from: n entries with ids
\* off + 1 .. off + n and results after a pattern
ResultPatterns == {"allPass", "oneFail", "badEnum", "badId"}

ResultAt(pattern, i) ==
    CASE pattern = "oneFail" /\ i = 1 -> "FAIL"
      [] pattern = "badEnum" /\ i = 1 -> "N/A"
      [] OTHER -> "PASS"

CriteriaArray(n, off, pattern) ==
    [i \in 1..n |->
        Criterion(i + off, IF pattern = "badId" /\ i = 1 THEN "string" ELSE "number",
                  ResultAt(pattern, i))]

CriteriaLengths == {0, NumCriteria - 1, NumCriteria, NumCriteria + 1}

Verdicts == {"PASS", "FAIL", "MAYBE", Undefined}

Parsed(criteriaType, criteria, overallVerdict) ==
    [criteriaType |-> criteriaType, criteria |-> criteria, overallVerdict |-> overallVerdict]

\* what JSON.parse yields for the JSON text extracted from the answer:
\* five criteria with ids 1..5 under every result pattern and verdict; other
\* lengths and other ids; criteria missing, or some other value (a string)
ParsedResponses ==
    {Parsed("array", CriteriaArray(NumCriteria, 0, p), v) : p \in ResultPatterns, v \in Verdicts}
    \cup {Parsed("array", CriteriaArray(n, 0, "allPass"), "PASS") : n \in CriteriaLengths}
    \cup {Parsed("array", CriteriaArray(NumCriteria, 1, "allPass"), "PASS")}
    \cup {Parsed(t, <<>>, "PASS") : t \in {"undefined", "string"}}

\* generateContent rejects, or the extracted text is no JSON, or it parses
ModelOutcomes == {[kind |-> "throw"], [kind |-> "unparsable"]}
                 \cup {[kind |-> "parsed", parsedResponse |-> p] : p \in ParsedResponses}

\* a small choice of outcomes: a failure, and a well-formed answer
FewOutcomes ==
    {[kind |-> "throw"],
     [kind |-> "parsed",
      parsedResponse |-> Parsed("array", CriteriaArray(NumCriteria, 0, "allPass"), "PASS")]}

\* !parsedResponse.criteria || !parsedResponse.overallVerdict
\* (an array, even an empty one, is truthy)
StructureMissing(parsedResponse) ==
    \/ parsedResponse.criteriaType = "undefined"
    \/ Falsy(parsedResponse.overallVerdict)

\* criterionSchema
criterionSchema(c) ==
    /\ c.idType = "number"
    /\ c.name = "string"
    /\ c.result \in {"PASS", "FAIL"}
    /\ c.reasoning = "string"

\* evaluationResponseSchema.parse does not throw
evaluationResponseSchema(r) ==
    /\ r.criteriaType = "array"
    /\ \A i \in 1..Len(r.criteria) : criterionSchema(r.criteria[i])
    /\ r.overallVerdict \in {"PASS", "FAIL"}

----------------------------------------------------------------------------
(* Evaluations *)

\* a store that does not advance its id counter: the next record overwrites
storeEvaluation_sameId(st, insertEvaluation) ==
    LET id == st.evaluationId
        evaluation == [id |-> id,
                       solutionId |-> insertEvaluation.solutionId,
                       timestamp |-> insertEvaluation.timestamp,
                       results |-> insertEvaluation.results,
                       overallVerdict |-> insertEvaluation.overallVerdict,
                       modelUsed |-> insertEvaluation.modelUsed,
                       temperature |-> insertEvaluation.temperature]
    IN  [evaluations |-> MapSet(st.evaluations, id, evaluation),
         evaluationId |-> st.evaluationId,
         result |-> evaluation]

\* MemStorage.storeEvaluation
storeEvaluation(st, insertEvaluation) ==
    LET id == st.evaluationId
        evaluation == [id |-> id,
                       solutionId |-> insertEvaluation.solutionId,
                       timestamp |-> insertEvaluation.timestamp,
                       results |-> insertEvaluation.results,
                       overallVerdict |-> insertEvaluation.overallVerdict,
                       modelUsed |-> insertEvaluation.modelUsed,
                       temperature |-> insertEvaluation.temperature]
    IN  [evaluations |-> MapSet(st.evaluations, id, evaluation),
         evaluationId |-> st.evaluationId + 1,
         result |-> evaluation]

\* MemStorage.getEvaluationsBySolutionId
getEvaluationsBySolutionId(evals, key) ==
    LET IsKey(evaluation) == evaluation.solutionId = key
    IN  SelectSeq(MapValues(evals), IsKey)

----------------------------------------------------------------------------
(* POST /api/evaluate/:id *)

\* the handlers that can be in flight together
NReq == 2
Reqs == 1..NReq

\* request bodies: complete, without model, without temperature
Bodies == {[model |-> "gemini-2.0-flash", temperature |-> "0.7"],
           [model |-> Undefined, temperature |-> "0.7"],
           [model |-> "gemini-2.0-flash", temperature |-> Undefined]}

NoResponse == Parsed("undefined", <<>>, Undefined)

IdleReq == [pc |-> "idle", id |-> "", body |-> [model |-> Undefined, temperature |-> Undefined],
            solution |-> <<>>, evaluationResult |-> NoResponse,
            status |-> 0, retryAfter |-> 0,
            recorded |-> 0, invoked |-> 0, appended |-> 0]

\* history: one more event at t; of more than maxRequests + 1 the oldest is dropped
Latest(log, t) ==
    LET l == Append(log, t)
    IN  IF Len(l) > maxRequests + 1 THEN Tail(l) ELSE l

\* res.status(status).json(...): the handler returns, its locals are gone
Answer(r, status) ==
    [req EXCEPT ![r] = [IdleReq EXCEPT !.pc = "done", !.status = status,
                                       !.recorded = req[r].recorded,
                                       !.invoked = req[r].invoked]]

\* a 429 branch without its return: the answer is sent and the handler goes on
RateLimited_goesOn(r, id, body, retryAfter) ==
    [req EXCEPT ![r] = [IdleReq EXCEPT !.pc = "lookup", !.id = id, !.body = body,
                                       !.solution = getSolutionById(solutions, id),
                                       !.status = 429, !.retryAfter = retryAfter]]

\* return res.status(429).json({ message, retryAfter })
RateLimited(r, id, body, retryAfter) ==
    [req EXCEPT ![r] = [IdleReq EXCEPT !.pc = "done", !.body = body, !.status = 429,
                                       !.retryAfter = retryAfter]]

\* the handler up to its first await: the rate limit check, the 429 answer,
\* the check of the body, the call of getSolutionById; between the two clock
\* readings of the 429 branch the clock advances by one of skews
EvalStartSkewed(r, id, body, skews) ==
    /\ phase = "listening"
    /\ req[r].pc = "idle"
    /\ LET rl == isRateLimited(requestTimestamps, now)
       IN  /\ requestTimestamps' = rl.requestTimestamps
           /\ IF rl.result
              THEN \* getTimeToWait reads the clock again
                   \E d \in skews :
                      /\ now + d <= MaxTime
                      /\ now' = now + d
                      /\ LET timeToWait == getTimeToWait(rl.requestTimestamps, now + d)
                         IN  req' = RateLimited(r, id, body, CeilSeconds(timeToWait))
                      /\ admitLog' = Recent(admitLog, now + d)
                      /\ invokeLog' = Recent(invokeLog, now + d)
              ELSE /\ now' = now
                   /\ admitLog' = Latest(admitLog, now)
                   /\ UNCHANGED invokeLog
                   /\ LET recorded == Len(rl.requestTimestamps)
                                         - Len(Unexpired(requestTimestamps, now))
                      IN  IF Falsy(body.model) \/ body.temperature = Undefined
                          THEN req' = [Answer(r, 400) EXCEPT ![r].recorded = recorded]
                          ELSE req' = [req EXCEPT ![r] =
                                         [IdleReq EXCEPT !.pc = "lookup", !.id = id, !.body = body,
                                                         !.solution = getSolutionById(solutions, id),
                                                         !.recorded = recorded]]
    /\ UNCHANGED <<evaluations, evaluationId, storeLog>>
    /\ UNCHANGED <<storeVars, clientVars, runVars>>

\* a handler that checks the body before it consults the limiter
EvalStart_validatesFirst(r, id, body) ==
    IF Falsy(body.model) \/ body.temperature = Undefined
    THEN /\ phase = "listening"
         /\ req[r].pc = "idle"
         /\ req' = Answer(r, 400)
         /\ UNCHANGED <<evaluations, evaluationId, now, requestTimestamps,
                        admitLog, invokeLog, storeLog>>
         /\ UNCHANGED <<storeVars, clientVars, runVars>>
    ELSE EvalStartSkewed(r, id, body, {0, TickMs})

\* the handler up to its first await, the clock at rest or one clock step on
EvalStart(r, id, body) == EvalStartSkewed(r, id, body, {0, TickMs})

\* a handler that answers from the history when the solution was evaluated before
EvalAfterLookup_cached(r) ==
    /\ req[r].pc = "lookup"
    /\ IF req[r].solution = <<>>
       THEN /\ req' = Answer(r, 404)
            /\ UNCHANGED invokeLog
       ELSE IF getEvaluationsBySolutionId(evaluations, req[r].solution[1]["solutionId"]) # <<>>
       THEN /\ req' = Answer(r, 200)
            /\ UNCHANGED invokeLog
       ELSE /\ req' = [req EXCEPT ![r].pc = "model", ![r].invoked = @ + 1]
            /\ invokeLog' = Latest(invokeLog, now)
    /\ UNCHANGED <<evaluations, evaluationId, now, requestTimestamps,
                   admitLog, storeLog>>
    /\ UNCHANGED <<storeVars, clientVars, runVars>>

\* after await storage.getSolutionById: 404, or evaluateSolution up to its
\* await of generateContent
EvalAfterLookup(r) ==
    /\ req[r].pc = "lookup"
    /\ IF req[r].solution = <<>>
       THEN /\ req' = Answer(r, 404)
            /\ UNCHANGED invokeLog
       ELSE /\ req' = [req EXCEPT ![r].pc = "model", ![r].invoked = @ + 1]
            /\ invokeLog' = Latest(invokeLog, now)
    /\ UNCHANGED <<evaluations, evaluationId, now, requestTimestamps,
                   admitLog, storeLog>>
    /\ UNCHANGED <<storeVars, clientVars, runVars>>

\* generateContent settles: the rest of evaluateSolution, the validation of
\* its result, the call of storeEvaluation
EvalModelReturns(r, outcome) ==
    /\ req[r].pc = "model"
    /\ IF \/ outcome.kind # "parsed"
          \/ StructureMissing(outcome.parsedResponse)
          \/ ~evaluationResponseSchema(outcome.parsedResponse)
       THEN /\ req' = Answer(r, 500)
            /\ UNCHANGED <<evaluations, evaluationId, storeLog>>
       ELSE LET evaluationResult == outcome.parsedResponse
                evaluation == [solutionId |-> req[r].solution[1]["solutionId"],
                               timestamp |-> now,
                               results |-> evaluationResult,
                               overallVerdict |-> evaluationResult.overallVerdict,
                               modelUsed |-> req[r].body.model,
                               temperature |-> req[r].body.temperature]
                st == storeEvaluation([evaluations |-> evaluations,
                                       evaluationId |-> evaluationId], evaluation)
            IN  /\ evaluations' = st.evaluations
                /\ evaluationId' = st.evaluationId
                /\ storeLog' = Append(storeLog, evaluation)
                /\ req' = [req EXCEPT ![r].pc = "store",
                                      ![r].evaluationResult = evaluationResult,
                                      ![r].appended = Len(st.evaluations) - Len(evaluations)]
    /\ UNCHANGED <<now, requestTimestamps, admitLog, invokeLog>>
    /\ UNCHANGED <<storeVars, clientVars, runVars>>

\* a handler that fails after it has stored the evaluation
EvalRespond_fails(r) ==
    /\ req[r].pc = "store"
    /\ req' = [Answer(r, 500) EXCEPT ![r].appended = req[r].appended]
    /\ UNCHANGED <<evaluations, evaluationId, now, requestTimestamps,
                   admitLog, invokeLog, storeLog>>
    /\ UNCHANGED <<storeVars, clientVars, runVars>>

\* after await storage.storeEvaluation: res.json(evaluationResult)
EvalRespond(r) ==
    /\ req[r].pc = "store"
    /\ req' = [Answer(r, 200) EXCEPT ![r].evaluationResult = req[r].evaluationResult,
                                     ![r].appended = req[r].appended]
    /\ UNCHANGED <<evaluations, evaluationId, now, requestTimestamps,
                   admitLog, invokeLog, storeLog>>
    /\ UNCHANGED <<storeVars, clientVars, runVars>>

\* the answer is sent and the handler is gone
EvalFinish(r) ==
    /\ req[r].pc = "done"
    /\ req' = [req EXCEPT ![r] = IdleReq]
    /\ UNCHANGED <<evaluations, evaluationId, now, requestTimestamps,
                   admitLog, invokeLog, storeLog>>
    /\ UNCHANGED <<storeVars, clientVars, runVars>>

----------------------------------------------------------------------------
(* BatchEvaluation.evaluateAll: the batch orchestrator of the client *)

\* the longest batch
MaxItems == 2

\* a timer fires up to MaxLag milliseconds later than it was set for
MaxLag == 1

\* const maxAttempts = 3
maxAttempts == 3

Min(a, b) == IF a <= b THEN a ELSE b

\* the solutions prop: the stored solutions, each with its own natural key
BatchKeys == <<"S1", "S2", "S3", "S4">>
Batches == {SubSeq(BatchKeys, 1, n) : n \in 0..MaxItems}

\* a delay that grows without the cap of 6000 ms
baseDelay_uncapped(i) == 2000 + (i \div 5) * 1000

\* Math.min(2000 + (Math.floor(i / 5) * 1000), 6000)
baseDelay(i) == Min(2000 + (i \div 5) * 1000, 6000)

\* Math.random() * n as a delay in whole milliseconds: the least and the greatest
RandomBelow(n) == {0, n - 1}

\* a backoff that grows by 5000 ms with each attempt
backoffTime_linear(attempts, j) == Min(30000, attempts * 5000 + j)

\* Math.min(30000, Math.pow(2, attempts) * 5000 + Math.random() * 3000)
backoffTime(attempts, j) == Min(30000, (2 ^ attempts) * 5000 + j)

\* errorData.retryAfter || 60
RetryAfterOf(errorData) ==
    IF ~errorData.hasRetryAfter \/ errorData.retryAfter = 0 THEN 60 ELSE errorData.retryAfter

\* a wait of retryAfter milliseconds, the seconds taken for milliseconds
waitTime_unscaled(retryAfter) == retryAfter

\* const waitTime = retryAfter * 1000
waitTime(retryAfter) == retryAfter * 1000

\* how a fetch settles: status 0 stands for a rejected call (no response);
\* a 429 body carries retryAfter or not, a 200 body is the EvaluationResponse
Response(status, hasRetryAfter, retryAfter, overallVerdict) ==
    [status |-> status, hasRetryAfter |-> hasRetryAfter, retryAfter |-> retryAfter,
     overallVerdict |-> overallVerdict]

RetryHints == {0, 1, 5, timeWindowSeconds}

Responses ==
    {Response(0, FALSE, 0, "")}
    \cup {Response(200, FALSE, 0, v) : v \in {"PASS", "FAIL"}}
    \cup {Response(429, TRUE, r, "") : r \in RetryHints}
    \cup {Response(429, FALSE, 0, "")}
    \cup {Response(st, FALSE, 0, "") : st \in {404, 500}}

\* response.ok
Ok(status) == status >= 200 /\ status <= 299

\* history of one item: its state, and its requests by the way they ended
NoStats == [state |-> "PENDING", requests |-> 0, limited |-> 0, failed |-> 0, succeeded |-> 0]

NoToast == [title |-> "", succeeded |-> 0, total |-> 0]

NoAnswer == [item |-> -1, status |-> 0, hasRetryAfter |-> FALSE, retryAfter |-> 0]

\* the component before a run, with the solutions it was given
IdleBatch(sols) ==
    [solutions |-> sols, pc |-> "idle",
     batchResults |-> <<>>, currentSolutionIndex |-> -1, inProgress |-> FALSE,
     results |-> <<>>, i |-> 0, success |-> FALSE, attempts |-> 0,
     timer |-> 0, toast |-> NoToast,
     stats |-> [k \in 1..Len(sols) |-> NoStats],
     inFlight |-> 0, last |-> NoAnswer, sinceAnswer |-> 0, sentAfter |-> 0]

\* await fetch(`/api/evaluate/${solution.solutionId}`, ...): the request is sent
Send(b) ==
    [b EXCEPT !.pc = "fetch", !.timer = 0,
              !.inFlight = @ + 1,
              !.stats[b.i + 1].requests = @ + 1,
              !.stats[b.i + 1].state = "ACTIVE",
              !.sentAfter = b.sinceAnswer]

\* the head of the while body: attempts++, then the delay before the request
\* (none for the first item) and the request
StartAttempt(b) ==
    LET c == [b EXCEPT !.attempts = @ + 1]
    IN  IF c.i > 0
        THEN [c EXCEPT !.pc = "delay", !.timer = baseDelay(c.i)]
        ELSE Send(c)

\* an end of the run without the finally block
Complete_keepsInProgress(b) ==
    [b EXCEPT !.pc = "complete",
              !.batchResults = b.results,
              !.toast = [title |-> "Batch Evaluation Complete",
                         succeeded |-> Len(b.results), total |-> Len(b.solutions)]]

\* after the for loop: setBatchResults(results), the closing toast, finally
Complete(b) ==
    [b EXCEPT !.pc = "complete",
              !.batchResults = b.results,
              !.toast = [title |-> "Batch Evaluation Complete",
                         succeeded |-> Len(b.results), total |-> Len(b.solutions)],
              !.inProgress = FALSE,
              !.currentSolutionIndex = -1]

\* the while loop is left (an item without success is skipped): i++ and the
\* next item, or the end of the for loop
NextItem(b) ==
    LET c == [b EXCEPT !.stats[b.i + 1].state = IF b.success THEN @ ELSE "SKIPPED"]
    IN  IF c.i + 1 < Len(c.solutions)
        THEN StartAttempt([c EXCEPT !.i = @ + 1, !.currentSolutionIndex = c.i + 1,
                                    !.success = FALSE, !.attempts = 0])
        ELSE Complete(c)

\* a loop that leaves an item one attempt early
LoopTest_oneAttemptLess(b) ==
    IF ~b.success /\ b.attempts < maxAttempts - 1 THEN StartAttempt(b) ELSE NextItem(b)

\* a loop that tests the attempts alone: a succeeded item is requested again
LoopTest_attemptsOnly(b) ==
    IF b.attempts < maxAttempts THEN StartAttempt(b) ELSE NextItem(b)

\* while (!success && attempts < maxAttempts)
LoopTest(b) ==
    IF ~b.success /\ b.attempts < maxAttempts THEN StartAttempt(b) ELSE NextItem(b)

\* a last failure that is thrown on: the outer catch ends the run
Skip_aborts(b) ==
    [b EXCEPT !.pc = "aborted",
              !.toast = [NoToast EXCEPT !.title = "Batch Evaluation Error"],
              !.inProgress = FALSE,
              !.currentSolutionIndex = -1]

\* the catch block after the last attempt: the "Skipping" toast, then the loop test
Skip(b) == LoopTest(b)

\* evaluateAll is called (the button is enabled while no run is in progress)
EvaluateAll ==
    /\ batch.pc = "idle"
    /\ ~batch.inProgress
    /\ IF Len(batch.solutions) = 0
       THEN batch' = [batch EXCEPT !.toast = [NoToast EXCEPT !.title = "No Solutions Available"]]
       ELSE batch' = StartAttempt([batch EXCEPT !.inProgress = TRUE, !.results = <<>>,
                                                !.i = 0, !.currentSolutionIndex = 0,
                                                !.success = FALSE, !.attempts = 0])
    /\ UNCHANGED <<storeVars, evalVars, runVars>>

\* the pending setTimeout has fired, lag milliseconds late
Elapsed(lag) == [batch EXCEPT !.sinceAnswer = @ + batch.timer + lag, !.timer = 0]

\* after the delay between requests: the request
DelayElapsed ==
    /\ batch.pc = "delay"
    /\ \E lag \in 0..MaxLag : batch' = Send(Elapsed(lag))
    /\ UNCHANGED <<storeVars, evalVars, runVars>>

\* after the rate-limit wait: continue
RateLimitWaitElapsed ==
    /\ batch.pc = "rateWait"
    /\ \E lag \in 0..MaxLag : batch' = LoopTest(Elapsed(lag))
    /\ UNCHANGED <<storeVars, evalVars, runVars>>

\* after the backoff: the catch block ends, the loop goes round
BackoffElapsed ==
    /\ batch.pc = "backoff"
    /\ \E lag \in 0..MaxLag : batch' = LoopTest(Elapsed(lag))
    /\ UNCHANGED <<storeVars, evalVars, runVars>>

\* the catch block of an attempt: the backoff, or after the last attempt the skip
Caught(b, j) ==
    IF b.attempts < maxAttempts
    THEN [b EXCEPT !.pc = "backoff", !.timer = backoffTime(b.attempts, j)]
    ELSE Skip(b)

\* the fetch settles: the rest of the try block, or the catch block, up to the next await
FetchSettles(response) ==
    /\ batch.pc = "fetch"
    /\ LET k == batch.i + 1
           b == [batch EXCEPT !.inFlight = @ - 1, !.sinceAnswer = 0, !.sentAfter = 0,
                              !.last = [item |-> batch.i, status |-> response.status,
                                        hasRetryAfter |-> response.hasRetryAfter,
                                        retryAfter |-> response.retryAfter]]
       IN  IF response.status = 429
           THEN \E j \in RandomBelow(2000) :
                   batch' = [b EXCEPT !.stats[k].limited = @ + 1,
                                      !.pc = "rateWait",
                                      !.timer = waitTime(RetryAfterOf(response)) + j]
           ELSE IF ~Ok(response.status)
           THEN \E j \in RandomBelow(3000) :
                   batch' = Caught([b EXCEPT !.stats[k].failed = @ + 1], j)
           ELSE batch' = LoopTest([b EXCEPT !.stats[k].succeeded = @ + 1,
                                            !.stats[k].state = "SUCCEEDED",
                                            !.results = MapSet(@, b.solutions[k],
                                                               response.overallVerdict),
                                            !.success = TRUE])
    /\ UNCHANGED <<storeVars, evalVars, runVars>>

----------------------------------------------------------------------------
(* Specifications *)

InitEvalVars ==
    /\ evaluations = <<>>
    /\ evaluationId = 1
    /\ now = 0
    /\ requestTimestamps = <<>>
    /\ req = [r \in Reqs |-> IdleReq]
    /\ admitLog = <<>>
    /\ invokeLog = <<>>
    /\ storeLog = <<>>

\* the state after construction: new MemStorage(), the start-up not yet run
Init ==
    /\ solutions = <<>>
    /\ solutionId = 1
    /\ phase = "boot"
    /\ ingest = IdleIngest
    /\ opLog = <<>>
    /\ clearLog = NoClear
    /\ startupLog = <<>>
    /\ InitEvalVars
    /\ runs = [u \in Runs |-> IdleRun]
    /\ batch = IdleBatch(<<>>)

NextStore ==
    \/ \E insertSolution \in InsertSolutions : CreateOrUpdateSolution(insertSolution)
    \/ ClearAllSolutions

\* the storage interface, its calls each run to completion
SpecStore == Init /\ [][NextStore]_vars

NextIngest ==
    \/ StartupMissing
    \/ \E file \in CsvFiles : StartupBegin(file)
    \/ StartupReadable
    \/ StartupError
    \/ StartupEnd
    \/ \E file \in CsvFiles : UploadBegin(file)
    \/ UploadData
    \/ UploadEnd

\* the start-up load and the uploads that follow it
SpecIngest == Init /\ [][NextIngest]_vars

\* the server listens, the start-up load has stored two solutions
Loaded ==
    SaveAll([solutions |-> <<>>, solutionId |-> 1],
            <<Transform(MkInsert("S1", Fields, "a")), Transform(MkInsert("S2", Fields, "b"))>>)

InitServing ==
    /\ solutions = Loaded.solutions
    /\ solutionId = Loaded.solutionId
    /\ phase = "listening"
    /\ ingest = IdleIngest
    /\ opLog = <<>>
    /\ clearLog = NoClear
    /\ startupLog = <<"Loading solutions from CSV file", "Parsed unique solutions from CSV",
                      "Successfully loaded solutions from CSV file">>
    /\ InitEvalVars
    /\ runs = [u \in Runs |-> IdleRun]
    /\ batch = IdleBatch(<<>>)

\* the evaluations a run stores
MaxStored == 1
MaxHistory == 3

\* complete requests for a stored solution, several handlers in flight
NextEval ==
    \/ Tick
    \/ \E r \in Reqs :
          EvalStart(r, "S1", [model |-> "gemini-2.0-flash", temperature |-> "0.7"])
    \/ \E r \in Reqs : EvalAfterLookup(r)
    \/ \E r \in Reqs, outcome \in FewOutcomes :
          /\ outcome.kind = "parsed" => evaluationId <= MaxStored
          /\ EvalModelReturns(r, outcome)
    \/ \E r \in Reqs : EvalRespond(r)
    \/ \E r \in Reqs : EvalFinish(r)

\* the limiter and the evaluate handlers in flight, with the clock
SpecEval == InitServing /\ [][NextEval]_vars

\* one handler at a time, every request and every answer of the external model
NextGateway ==
    \/ \E id \in Keys \cup {"S9"}, body \in Bodies : EvalStart(1, id, body)
    \/ EvalAfterLookup(1)
    \/ \E outcome \in ModelOutcomes :
          /\ outcome.kind = "parsed" => evaluationId <= MaxStored
          /\ EvalModelReturns(1, outcome)
    \/ EvalRespond(1)
    \/ EvalFinish(1)

\* the evaluate handler with every answer of the external model, the clock at rest
SpecGateway == InitServing /\ [][NextGateway]_vars

\* the instants of a millisecond clock around the expiry of a window opened at 0
ClockValues == {0, 1, 1000, timeWindow - 1000, timeWindow - 1, timeWindow, timeWindow + 1}

\* Date.now() read twice in one synchronous run: the same millisecond or the next
ClockSkews == {0, 1}

NextLimiter ==
    \/ \E t \in ClockValues : Advance(t)
    \/ \E body \in Bodies :
          /\ EvalStartSkewed(1, "S9", body, ClockSkews)
          /\ now' # now => now \in ClockValues
    \/ EvalAfterLookup(1)
    \/ EvalFinish(1)

InitOverlap ==
    /\ solutions = <<>>
    /\ solutionId = 1
    /\ phase = "listening"
    /\ ingest = IdleIngest
    /\ opLog = <<>>
    /\ clearLog = NoClear
    /\ startupLog = <<"CSV file not found">>
    /\ InitEvalVars
    /\ runs = [u \in Runs |-> IdleRun]
    /\ batch = IdleBatch(<<>>)

NextOverlap ==
    \/ \E u \in Runs, file \in UploadedFiles : OverlapBegin(u, file)
    \/ \E u \in Runs : OverlapData(u)
    \/ \E u \in Runs : OverlapEnd(u)
    \/ \E u \in Runs : UpsertResume(u)

\* uploads in flight together on a server that started with an empty store
SpecOverlap == InitOverlap /\ [][NextOverlap]_vars

NextUpload ==
    \/ \E file \in UploadedFiles : UploadBegin(file)
    \/ UploadData
    \/ UploadError
    \/ UploadEnd

\* uploads one after another, the parser failing or not, on a server that
\* started with an empty store
SpecUpload == InitOverlap /\ [][NextUpload]_vars

\* the longest batch of the long run
LongItems == 26

\* a solutions prop of LongItems solutions, each with its own natural key
LongBatch == [n \in 1..LongItems |-> "S" \o ToString(n)]

\* the requests of the run that were answered 429 or failed
Troubles(b) ==
    LET RECURSIVE Upto(_)
        Upto(k) == IF k = 0 THEN 0
                   ELSE Upto(k - 1) + b.stats[k].limited + b.stats[k].failed
    IN  Upto(Len(b.solutions))

InitLongBatch ==
    /\ solutions = Loaded.solutions
    /\ solutionId = Loaded.solutionId
    /\ phase = "listening"
    /\ ingest = IdleIngest
    /\ opLog = <<>>
    /\ clearLog = NoClear
    /\ startupLog = <<>>
    /\ InitEvalVars
    /\ runs = [u \in Runs |-> IdleRun]
    /\ batch = IdleBatch(LongBatch)

NextLongBatch ==
    \/ EvaluateAll
    \/ DelayElapsed
    \/ RateLimitWaitElapsed
    \/ BackoffElapsed
    \/ \E response \in Responses :
          /\ response.status = 200 => response.overallVerdict = "PASS"
          /\ response.status # 200 => Troubles(batch) = 0
          /\ FetchSettles(response)

\* evaluateAll over a long batch, at most one request of the run answered
\* 429 or failing
SpecLongBatch == InitLongBatch /\ [][NextLongBatch]_vars

\* the rate limiter under a millisecond clock: requests for an unknown
\* solution, one after another; the clock moves within a handler only from
\* an instant of ClockValues
SpecLimiter == InitServing /\ [][NextLimiter]_vars

\* one handler at a time, complete requests for the stored solutions
NextHistory ==
    \/ Tick
    \/ \E id \in Keys :
          EvalStart(1, id, [model |-> "gemini-2.0-flash", temperature |-> "0.7"])
    \/ EvalAfterLookup(1)
    \/ \E outcome \in FewOutcomes :
          /\ outcome.kind = "parsed" => evaluationId <= MaxHistory
          /\ EvalModelReturns(1, outcome)
    \/ EvalRespond(1)
    \/ EvalFinish(1)

\* the history of evaluations that successive requests build
SpecHistory == InitServing /\ [][NextHistory]_vars

\* the component is mounted with one of the batches, the server listens
InitBatch ==
    /\ solutions = Loaded.solutions
    /\ solutionId = Loaded.solutionId
    /\ phase = "listening"
    /\ ingest = IdleIngest
    /\ opLog = <<>>
    /\ clearLog = NoClear
    /\ startupLog = <<>>
    /\ InitEvalVars
    /\ runs = [u \in Runs |-> IdleRun]
    /\ \E sols \in Batches : batch = IdleBatch(sols)

NextBatch ==
    \/ EvaluateAll
    \/ DelayElapsed
    \/ RateLimitWaitElapsed
    \/ BackoffElapsed
    \/ \E response \in Responses : FetchSettles(response)

\* a run of evaluateAll against every way its requests can end
SpecBatch == InitBatch /\ [][NextBatch]_vars

\* one way for a fetch to settle of each kind: rejected, 200, 429 with a
\* retryAfter and without, 500
FewResponses ==
    {response \in Responses :
        /\ response.status # 404
        /\ response.overallVerdict # "FAIL"
        /\ response.hasRetryAfter => response.retryAfter = 1}

NextBatchLive ==
    \/ EvaluateAll
    \/ DelayElapsed
    \/ RateLimitWaitElapsed
    \/ BackoffElapsed
    \/ \E response \in FewResponses : FetchSettles(response)

\* a timer that was set fires, and a request that was sent returns
FairBatch ==
    /\ WF_vars(DelayElapsed)
    /\ WF_vars(RateLimitWaitElapsed)
    /\ WF_vars(BackoffElapsed)
    /\ WF_vars(\E response \in FewResponses : FetchSettles(response))

\* a run of evaluateAll, every timer firing and every request returning
SpecBatchLive == InitBatch /\ [][NextBatchLive]_vars /\ FairBatch

Spec == SpecStore

----------------------------------------------------------------------------
(* Properties of the record store *)

\* the stored records under the natural key k
RecordsUnder(sols, k) ==
    LET IsKey(solution) == solution["solutionId"] = k
    IN  SelectSeq(getAllSolutions(sols), IsKey)

\* the record carries the field values of the input, null for a missing field
CarriesValues(solution, input) ==
    \A f \in Fields :
        solution[f] = IF input[f] = Undefined THEN Null ELSE input[f]

\* the last two calls were upserts of one natural key, the first of which
\* found no record under it
TwoUpsertsOfOneKey ==
    /\ Len(opLog) = 2
    /\ opLog[1].input["solutionId"] = opLog[2].input["solutionId"]
    /\ opLog[1].created

\* C1: after createOrUpdateSolution(R1); createOrUpdateSolution(R2) with one
\* natural key that the store did not hold before, exactly one record is
\* stored under that key; it carries R2's field values and the internal id
\* assigned when R1 was inserted.
C1_UpsertIdempotency ==
    TwoUpsertsOfOneKey =>
        LET under == RecordsUnder(solutions, opLog[2].input["solutionId"])
        IN  /\ Len(under) = 1
            /\ under[1]["id"] = opLog[1].id
            /\ CarriesValues(under[1], opLog[2].input)

\* R1 and R2 differ, and R1 was given an internal id other than the first
C1_Witness ==
    /\ TwoUpsertsOfOneKey
    /\ opLog[1].input # opLog[2].input
    /\ opLog[1].id = 2
    /\ ~opLog[2].created

NaturalKeyUnique(sols) ==
    \A i, j \in 1..Len(sols) :
        sols[i].value["solutionId"] = sols[j].value["solutionId"] => i = j

\* a record that is stored before and after a step has the same internal id
InternalIdStable ==
    \A i \in 1..Len(solutions), j \in 1..Len(solutions') :
        solutions[i].value["solutionId"] = solutions'[j].value["solutionId"]
            => solutions[i].value["id"] = solutions'[j].value["id"]

\* C2: under any sequence of createOrUpdateSolution and clearAllSolutions
\* calls no two stored records share a natural key, and no step changes the
\* internal id of a record that exists before and after it.
C2_KeyUniqueIdStable == [](NaturalKeyUnique(solutions)) /\ [][InternalIdStable]_vars

\* two records are stored and the last call updated one of them
C2_Witness ==
    /\ Len(solutions) = 2
    /\ Len(opLog) = 2
    /\ ~opLog[2].created
    /\ opLog[2].id = 1

\* C3: when createOrUpdateSolution has updated an existing record, every
\* descriptive field of the stored record is the value of the input, and
\* null where the input has no value: no value of the old record is left.
C3_UpdateReplacesEveryField ==
    (Len(opLog) >= 1 /\ ~opLog[Len(opLog)].created) =>
        LET input == opLog[Len(opLog)].input
            under == RecordsUnder(solutions, input["solutionId"])
        IN  \A i \in 1..Len(under) : \A f \in Fields :
                /\ input[f] = Undefined => under[i][f] = Null
                /\ input[f] # Undefined => under[i][f] = input[f]

\* an update whose input lacks a field that the call before had set
C3_Witness ==
    /\ Len(opLog) = 2
    /\ opLog[1].input["solutionId"] = opLog[2].input["solutionId"]
    /\ ~opLog[2].created
    /\ opLog[1].input["summary"] = "a"
    /\ opLog[2].input["summary"] = Undefined
    /\ opLog[2].input["duration"] = "b"
    /\ RecordsUnder(solutions, opLog[2].input["solutionId"])[1]["summary"] = Null

----------------------------------------------------------------------------
(* Properties of the ingestion *)

\* the rows of the file with the Solution ID k, in file order
RowsOf(file, k) ==
    LET IsKey(record) == record["solutionId"] = k
    IN  SelectSeq(file, IsKey)

\* an ingestion run ends with this step
IngestionEnds == ingest.pc = "parsing" /\ ingest'.pc = "idle"

\* after the run, one record under k, with the values of the first row of k
FirstRowKept(file, sols, k) ==
    LET under == RecordsUnder(sols, k)
    IN  /\ Len(under) = 1
        /\ CarriesValues(under[1], Transform(RowsOf(file, k)[1]))

\* C4: when an ingestion run, the startup load or an upload, ends, every
\* Solution ID that occurs in more than one row of its file has exactly one
\* stored record, with the field values of the first row that has that ID.
C4_IngestionDedup ==
    [][IngestionEnds =>
         \A k \in Keys :
            Len(RowsOf(ingest.file, k)) > 1 => FirstRowKept(ingest.file, solutions', k)]_vars

\* the same for the startup load alone
StartupDedup ==
    [][(IngestionEnds /\ ingest.kind = "startup") =>
         \A k \in Keys :
            Len(RowsOf(ingest.file, k)) > 1 => FirstRowKept(ingest.file, solutions', k)]_vars

\* an upload ends with exactly one record under each Solution ID of its
\* file, with the field values of the last row that has that ID
UploadLastRowWins ==
    [][(IngestionEnds /\ ingest.kind = "upload") =>
         \A k \in RowKeys :
            Len(RowsOf(ingest.file, k)) >= 1 =>
                LET under == RecordsUnder(solutions', k)
                    rows == RowsOf(ingest.file, k)
                IN  /\ Len(under) = 1
                    /\ CarriesValues(under[1], Transform(rows[Len(rows)]))]_vars

----------------------------------------------------------------------------
(* Properties of the rate limiter *)

\* in this step the handler r makes its isRateLimited() call
CallBy(r) == req[r].pc = "idle" /\ req'[r].pc # "idle"

\* the call returned true: the handler answers 429
Rejected(r) == req'[r].status = 429

\* C5: with maxRequests = 5 and windowSeconds = 60, a call returns false while
\* fewer than five calls have been admitted in the 60 s before it (five calls
\* in quick succession), a call made less than 60 s after the first of five
\* recorded calls returns true (the sixth call), and a call made more than
\* 60 s after the first recorded call returns false again.
C5_RateLimiterBoundary ==
    [][\A r \in Reqs :
          CallBy(r) =>
            /\ Len(admitLog) < maxRequests => ~Rejected(r)
            /\ (Len(requestTimestamps) = maxRequests
                  /\ now - requestTimestamps[1] < timeWindow) => Rejected(r)
            /\ (Len(requestTimestamps) >= 1
                  /\ now - requestTimestamps[1] > timeWindow) => ~Rejected(r)]_vars

\* one call was rejected, and a later call, made when the five admissions
\* before it had expired, is admitted
C5_Witness ==
    /\ req[1].pc = "done" /\ req[1].status = 429 /\ req[1].retryAfter > 0
    /\ req[2].pc = "lookup"
    /\ now >= timeWindow
    /\ requestTimestamps = <<now>>

\* C6: a call that returns true records no timestamp: the timestamps after it
\* are the unexpired timestamps from before it, so the oldest of them, which
\* decides when the limiter admits again, is not moved by the call.
C6_RejectionRecordsNothing ==
    [][\A r \in Reqs :
          (CallBy(r) /\ Rejected(r)) =>
            LET Alive(timestamp) == now - timestamp < timeWindow
            IN  /\ requestTimestamps' = SelectSeq(requestTimestamps, Alive)
                /\ Len(requestTimestamps') <= Len(requestTimestamps)
                /\ requestTimestamps' # <<>>
                /\ requestTimestamps'[1] = SelectSeq(requestTimestamps, Alive)[1]]_vars

\* a call was rejected later than the five admissions that saturate the limiter
C6_Witness ==
    \E r \in Reqs :
        /\ req[r].pc = "done" /\ req[r].status = 429
        /\ Len(requestTimestamps) = maxRequests
        /\ \A i \in 1..Len(requestTimestamps) : requestTimestamps[i] < now

\* C7 as claimed: in every interval shorter than timeWindow at most
\* maxRequests requests are admitted, and at most maxRequests invocations of
\* the external model are made.
C7_AsClaimed ==
    /\ Len(admitLog) <= maxRequests
    /\ Len(invokeLog) <= maxRequests

\* C7: in every interval shorter than timeWindow at most maxRequests evaluate
\* requests are admitted by the limiter, also when several handlers are in
\* flight together; the bound is on the admissions, not on the times of the
\* invocations, which follow the admission after an await.
C7_AdmissionsBounded ==
    /\ Len(admitLog) <= maxRequests
    /\ Len(Unexpired(requestTimestamps, now)) <= maxRequests
    /\ \A i \in 1..Len(admitLog) : now - admitLog[i] < timeWindow

\* two handlers are in flight together while the limiter is saturated
C7_Witness ==
    /\ Len(admitLog) = maxRequests
    /\ now - admitLog[1] < timeWindow
    /\ req[1].pc \in {"lookup", "model"}
    /\ req[2].pc \in {"lookup", "model"}

----------------------------------------------------------------------------
(* Properties of the evaluation history *)

\* an evaluation record without its id
Inserted(evaluation) ==
    [solutionId |-> evaluation.solutionId,
     timestamp |-> evaluation.timestamp,
     results |-> evaluation.results,
     overallVerdict |-> evaluation.overallVerdict,
     modelUsed |-> evaluation.modelUsed,
     temperature |-> evaluation.temperature]

\* the evaluations stored for the solution k, in the order of the calls
StoredFor(k) ==
    LET IsKey(evaluation) == evaluation.solutionId = k
    IN  SelectSeq(storeLog, IsKey)

IdsIncrease ==
    \A i, j \in 1..Len(evaluations) :
        i < j => evaluations[i].value.id < evaluations[j].value.id

HistoryInCallOrder ==
    \A k \in Keys :
        LET history == getEvaluationsBySolutionId(evaluations, k)
        IN  /\ Len(history) = Len(StoredFor(k))
            /\ \A i \in 1..Len(history) : Inserted(history[i]) = StoredFor(k)[i]
            /\ \A i, j \in 1..Len(history) : i < j => history[i].id < history[j].id

AppendOnly ==
    /\ Len(evaluations') >= Len(evaluations)
    /\ \A i \in 1..Len(evaluations) : evaluations'[i] = evaluations[i]
    /\ \A j \in (Len(evaluations) + 1)..Len(evaluations') :
          \A i \in 1..Len(evaluations) : evaluations'[j].value.id > evaluations[i].value.id

\* C8: storeEvaluation leaves every existing record as it is and gives the
\* new record an id greater than every earlier id; the successful evaluations
\* of a solution are all in its history, as distinct records, in the order in
\* which they were stored.
C8_EvaluationAppendOnly == [](IdsIncrease /\ HistoryInCallOrder) /\ [][AppendOnly]_vars

\* two evaluations of one solution, made at different times, with an
\* evaluation of another solution between them
C8_Witness ==
    /\ Len(evaluations) = 3
    /\ evaluations[2].value.solutionId = "S2"
    /\ LET history == getEvaluationsBySolutionId(evaluations, "S1")
       IN  /\ Len(history) = 2
           /\ history[1].timestamp < history[2].timestamp
           /\ history[1].id = 1 /\ history[2].id = 3

----------------------------------------------------------------------------
(* Properties of the accepted answers *)

AllPass(criteria) == \A i \in 1..Len(criteria) : criteria[i].result = "PASS"

\* C9: every answer that the evaluate endpoint accepts and stores has
\* overallVerdict PASS if and only if every criterion result is PASS.
C9_VerdictConsistency ==
    \A i \in 1..Len(evaluations) :
        LET evaluation == evaluations[i].value
        IN  evaluation.overallVerdict = "PASS" <=> AllPass(evaluation.results.criteria)

\* C10: every answer that the evaluate endpoint accepts and stores has
\* exactly 5 criteria, with the ids 1 to 5.
C10_FiveCriteria ==
    \A i \in 1..Len(evaluations) :
        LET criteria == evaluations[i].value.results.criteria
        IN  /\ Len(criteria) = NumCriteria
            /\ {criteria[j].id : j \in 1..Len(criteria)} = 1..NumCriteria

----------------------------------------------------------------------------
(* Properties of the batch orchestrator *)

Settled(st) == st.state \in {"SUCCEEDED", "SKIPPED"}

Items == 1..Len(batch.solutions)

\* the natural keys of the items for which a request succeeded
SucceededKeys == {batch.solutions[k] : k \in {j \in Items : batch.stats[j].succeeded >= 1}}

\* the natural keys a result mapping holds
KeysOf(m) == {m[n].key : n \in 1..Len(m)}

\* C11: a run of evaluateAll does not end in the outer catch and does not
\* end before the last item (a call with no solutions returns at once with
\* the "No Solutions Available" toast): it takes the items in order, and when it ends
\* every item has been requested and has succeeded or was skipped, the result
\* mapping holds exactly the items for which a request succeeded, and the
\* closing toast reports their number out of the number of items.
C11_SkipWithoutAbort ==
    /\ batch.pc # "aborted"
    /\ (~batch.inProgress /\ batch.pc # "idle") => batch.pc = "complete"
    /\ \A k \in Items :
          batch.stats[k].requests >= 1 => \A j \in 1..(k - 1) : Settled(batch.stats[j])
    /\ batch.pc = "complete" =>
          /\ \A k \in Items : batch.stats[k].requests >= 1 /\ Settled(batch.stats[k])
          /\ KeysOf(batch.batchResults) = SucceededKeys
          /\ Len(batch.batchResults) = Cardinality(SucceededKeys)
          /\ batch.toast = [title |-> "Batch Evaluation Complete",
                            succeeded |-> Cardinality(SucceededKeys),
                            total |-> Len(batch.solutions)]

\* the run has ended; the first item failed three times and was skipped,
\* the item after it was requested and succeeded
C11_Witness ==
    /\ batch.pc = "complete"
    /\ Len(batch.solutions) >= 2
    /\ batch.stats[1].state = "SKIPPED" /\ batch.stats[1].failed = 3
    /\ batch.stats[2].state = "SUCCEEDED"
    /\ batch.toast.succeeded = Len(batch.solutions) - 1

\* the request in flight follows a 429 answer to a request for the same item
RetriesAfter429 ==
    /\ batch.pc = "fetch"
    /\ batch.last.status = 429
    /\ batch.last.item = batch.i

\* C12: a request that follows a 429 answer for the same item is sent no
\* sooner than retryAfter * 1000 ms after that answer, and no sooner than
\* 60000 ms after it when the answer carries no retryAfter.
C12_RateLimitWaitHonored ==
    RetriesAfter429 =>
        /\ batch.last.hasRetryAfter => batch.sentAfter >= batch.last.retryAfter * 1000
        /\ ~batch.last.hasRetryAfter => batch.sentAfter >= 60000

\* a retry of the second item after a 429 with retryAfter = 5, sent within
\* 10 s of the answer
C12_Witness ==
    /\ RetriesAfter429
    /\ batch.i = 1
    /\ batch.last.hasRetryAfter /\ batch.last.retryAfter = 5
    /\ batch.sentAfter >= 5000 /\ batch.sentAfter < 10000

\* C13: an item is skipped only after 3 attempts that ended in success or in
\* a non-rate-limit failure, however many 429 answers it has received.
C13_RateLimitNotCounted ==
    \A k \in Items :
        batch.stats[k].state = "SKIPPED" =>
            batch.stats[k].failed + batch.stats[k].succeeded = 3

\* what holds in place of C13: every request counts, a 429 answer too
EveryRequestCounts ==
    \A k \in Items :
        /\ batch.stats[k].requests <= 3
        /\ batch.stats[k].state = "SKIPPED" =>
              batch.stats[k].limited + batch.stats[k].failed = 3

\* every answer the item has had is a non-rate-limit failure
OnlyFailures(st) == st.limited = 0 /\ st.succeeded = 0

\* C14: an item whose requests all end in a non-rate-limit failure is
\* requested exactly 3 times, no more; it is then skipped, it is absent from
\* the results, and the next item is started.
C14_ThreeAttemptsThenSkip ==
    \A k \in Items :
        OnlyFailures(batch.stats[k]) =>
            /\ batch.stats[k].requests <= 3
            /\ batch.stats[k].failed = 3 =>
                  /\ batch.stats[k].state = "SKIPPED"
                  /\ batch.solutions[k] \notin KeysOf(batch.results)
                  /\ k < Len(batch.solutions) => batch.i >= k
            /\ batch.stats[k].state = "SKIPPED" => batch.stats[k].requests = 3

\* the first item was skipped after three failures and the second is in flight
C14_Witness ==
    /\ Len(batch.solutions) >= 2
    /\ OnlyFailures(batch.stats[1])
    /\ batch.stats[1].requests = 3 /\ batch.stats[1].state = "SKIPPED"
    /\ batch.i = 1 /\ batch.pc = "fetch"

\* in this step a request for the item k is sent
Sends(k) == batch'.stats[k].requests > batch.stats[k].requests

StrictSequencing ==
    \A k \in Items :
        Sends(k) =>
            /\ batch.inFlight = 0
            /\ ~Settled(batch.stats[k])
            /\ \A j \in 1..(k - 1) : Settled(batch.stats[j])

\* C15: at most one request is in flight; a request for an item is sent
\* only when no request is in flight, every item before it has succeeded or
\* was skipped, and the item itself has not.
C15_StrictSequencing == [](batch.inFlight <= 1) /\ [][StrictSequencing]_vars

\* the second item is in flight for the second time, after the first succeeded
C15_Witness ==
    /\ Len(batch.solutions) >= 2
    /\ batch.pc = "fetch" /\ batch.inFlight = 1
    /\ batch.i = 1 /\ batch.stats[2].requests = 2
    /\ batch.stats[1].state = "SUCCEEDED"

----------------------------------------------------------------------------
(* Properties of the answers of the evaluate endpoint *)

\* C16: a request that the rate limiter rejects is answered 429 with a
\* retryAfter of whole seconds and the handler ends there: the step stores no
\* evaluation, invokes the external model for no request and leaves the
\* solutions as they are, and a handler that has answered 429 does nothing more.
C16_RejectionHasNoEffect ==
    /\ [](\A r \in Reqs : req[r].status = 429 => req[r].pc = "done" /\ req[r].appended = 0)
    /\ [][\A r \in Reqs :
            (CallBy(r) /\ isRateLimited(requestTimestamps, now).result) =>
                /\ req'[r].pc = "done"
                /\ req'[r].status = 429
                /\ req'[r].retryAfter \in 0..timeWindowSeconds
                /\ evaluations' = evaluations
                /\ evaluationId' = evaluationId
                /\ storeLog' = storeLog
                /\ invokeLog' = Recent(invokeLog, now')
                /\ solutions' = solutions]_vars

\* a request was rejected while five invocations of the model were recent
\* and an evaluation was stored
C16_Witness ==
    \E r \in Reqs :
        /\ req[r].pc = "done" /\ req[r].status = 429 /\ req[r].retryAfter >= 1
        /\ Len(invokeLog) = maxRequests
        /\ Len(evaluations) = 1

\* the step of a handler that appends to the evaluations
Appends(r) == req[r].pc = "model" /\ req'[r].pc = "store" /\ req'[r].appended = 1

\* C17: a request answered 200 has appended exactly one evaluation, a
\* request answered 400, 404, 429 or 500 has appended none, and the
\* evaluations grow by one record in the steps of the requests that go on to
\* answer 200, and in no other step.
C17_OneRecordPerSuccess ==
    /\ [](\A r \in Reqs :
            /\ req[r].pc = "done" =>
                  /\ req[r].status \in {200, 400, 404, 429, 500}
                  /\ req[r].status = 200 => req[r].appended = 1
                  /\ req[r].status # 200 => req[r].appended = 0
            /\ req[r].pc = "store" => req[r].appended = 1
            /\ req[r].pc \in {"idle", "lookup", "model"} => req[r].appended = 0)
    /\ [][/\ evaluations' # evaluations =>
                /\ Len(evaluations') = Len(evaluations) + 1
                /\ \E r \in Reqs : Appends(r)
          /\ \A r \in Reqs :
                req[r].pc = "store" /\ req'[r].pc # "store" =>
                    req'[r].pc = "done" /\ req'[r].status = 200]_vars

\* a request is answered 200 with its one record, after four requests that
\* the limiter admitted and that appended nothing
C17_Witness ==
    /\ req[1].pc = "done" /\ req[1].status = 200 /\ req[1].appended = 1
    /\ Len(requestTimestamps) = maxRequests
    /\ Len(evaluations) = 1

----------------------------------------------------------------------------
(* Properties of clearAllSolutions and of the start-up *)

\* the natural keys of the rows of a file
FileKeys(file) == {file[n]["solutionId"] : n \in 1..Len(file)}

\* C18: when an ingestion run, the startup load or an upload, ends, the store
\* holds no record whose natural key is absent from the file of that run.
C18_IngestionClearsStore ==
    [][IngestionEnds =>
         \A i \in 1..Len(solutions') :
            solutions'[i].value["solutionId"] \in FileKeys(ingest.file)]_vars

\* what the code does in place of C18: an ingestion run removes no record
IngestionKeepsRecords ==
    [][IngestionEnds =>
         \A i \in 1..Len(solutions) :
            RecordsUnder(solutions', solutions[i].value["solutionId"]) # <<>>]_vars

\* C19: after clearAllSolutions getAllSolutions returns no record, no natural
\* key is found and the id counter is 1; the next record created gets the
\* internal id 1.
C19_ClearResets ==
    clearLog.cleared =>
        /\ opLog = <<>> =>
              /\ getAllSolutions(solutions) = <<>>
              /\ \A k \in Keys : getSolutionById(solutions, k) = <<>>
              /\ solutionId = 1
        /\ Len(opLog) = 1 =>
              /\ opLog[1].created
              /\ opLog[1].id = 1
              /\ Len(getAllSolutions(solutions)) = 1
              /\ getAllSolutions(solutions)[1]["id"] = 1

\* two records with the ids 1 and 2 were cleared, and a record was created since
C19_Witness ==
    /\ clearLog.cleared
    /\ clearLog.records = 2 /\ clearLog.nextId = 3
    /\ Len(opLog) = 1
    /\ solutionId = 2

\* the start-up found no data file
FileAbsent == startupLog # <<>> /\ startupLog[1] = "CSV file not found"

\* C20: when the startup data file is absent the load logs it and does
\* nothing else, no store operation and no error, and the server listens.
C20_MissingFileIsNoOp ==
    /\ [](FileAbsent => phase = "listening" /\ Len(startupLog) = 1)
    /\ [][(phase = "boot" /\ phase' # "loading") =>
            /\ phase' = "listening"
            /\ solutions' = solutions
            /\ solutionId' = solutionId
            /\ opLog' = opLog
            /\ ingest' = ingest]_vars

\* the file was absent, the store was left empty, and the server handles an upload
C20_Witness ==
    /\ FileAbsent
    /\ phase = "listening"
    /\ solutions = <<>> /\ solutionId = 1
    /\ ingest.kind = "upload" /\ ingest.pc = "parsing"

\* the parser of the start-up load emitted an error
StartupErrorLogged ==
    startupLog # <<>> /\ startupLog[Len(startupLog)] = "Error parsing CSV"

\* C21: a stream-level error during the start-up load is caught and logged
\* and does not end the process: the server registers its routes and listens.
C21_StartupErrorSurvived == StartupErrorLogged => phase = "listening"

\* what the code does in place of C21: the error is logged, the start-up
\* sequence ends there, and the store is left as the constructor made it
StartupErrorStops ==
    StartupErrorLogged =>
        /\ phase = "crashed"
        /\ solutions = <<>> /\ solutionId = 1

\* an upload failed to parse
UploadFails == ingest.kind = "upload" /\ ingest.pc = "parsing" /\ ingest'.pc = "failed"

\* C30: when an uploaded file fails to parse the upload is answered with an
\* error and the store is unchanged: the rows parsed before the failure are
\* not upserted, at the failure or after it.
C30_FailedUploadWritesNothing ==
    /\ [](ingest.kind = "upload" /\ ingest.pc = "failed" => ingest.status = 500)
    /\ [][UploadFails => solutions' = solutions /\ solutionId' = solutionId]_vars
    /\ [][ingest.pc = "failed" => solutions' = solutions /\ solutionId' = solutionId]_vars

\* an upload failed after a row with a Solution ID was parsed, and the store
\* has no record under that ID
C30_Witness ==
    /\ ingest.kind = "upload" /\ ingest.pc = "failed" /\ ingest.status = 500
    /\ ingest.solutions # <<>>
    /\ ingest.solutions[1]["solutionId"] \in Keys
    /\ getSolutionById(solutions, ingest.solutions[1]["solutionId"]) = <<>>

MalformedAnsweredOnce ==
    \E r \in Reqs :
        /\ req[r].pc = "done" /\ req[r].status = 500 /\ req[r].invoked = 1
        /\ req[r].appended = 0

\* the limiter holds maxRequests timestamps that have not expired
Saturated == Len(Unexpired(requestTimestamps, now)) >= maxRequests

\* the body lacks the model or the temperature
Incomplete(body) == Falsy(body.model) \/ body.temperature = Undefined

\* C29: the evaluate endpoint consults the rate limiter before it checks the
\* request: a request that is not answered 429 records exactly one limiter
\* timestamp, whether it goes on or is answered 400, 404 or 500, a request
\* answered 429 records none, and while the limiter is saturated every
\* request is answered 429, one without model or temperature too.
C29_LimiterBeforeValidation ==
    /\ [](\A r \in Reqs :
            /\ req[r].pc = "idle" => req[r].recorded = 0
            /\ req[r].pc \in {"lookup", "model", "store"} => req[r].recorded = 1
            /\ req[r].pc = "done" =>
                  req[r].recorded = IF req[r].status = 429 THEN 0 ELSE 1)
    /\ [][\A r \in Reqs :
            (req[r].pc = "idle" /\ req'[r].pc # "idle" /\ Saturated) =>
                req'[r].pc = "done" /\ req'[r].status = 429]_vars
    /\ [][\A r \in Reqs :
            (req[r].pc = "idle" /\ req'[r].pc # "idle" /\ ~Saturated) =>
                /\ req'[r].status # 429
                /\ Len(requestTimestamps') = Len(Unexpired(requestTimestamps, now)) + 1]_vars

\* a request without a model or a temperature was answered 429 by the
\* saturated limiter and recorded nothing
C29_Witness ==
    \E r \in Reqs :
        /\ req[r].pc = "done" /\ req[r].status = 429
        /\ Incomplete(req[r].body)
        /\ req[r].recorded = 0
        /\ Len(requestTimestamps) = maxRequests

\* a request without a temperature was answered 400 and recorded a timestamp
InvalidRecorded ==
    \E r \in Reqs :
        /\ req[r].pc = "done" /\ req[r].status = 400 /\ req[r].recorded = 1

\* what the client makes of the retryAfter of a 429 answer
ClientRetryAfter(r) ==
    RetryAfterOf([hasRetryAfter |-> TRUE, retryAfter |-> req[r].retryAfter])

\* C26: every 429 answer of the evaluate endpoint carries a retryAfter with
\* 1 <= retryAfter <= timeWindowSeconds, also when the clock advances between
\* isRateLimited() and getTimeToWait(), so the client waits retryAfter
\* seconds and not its default.
C26_RetryAfterPositive ==
    \A r \in Reqs :
        (req[r].pc = "done" /\ req[r].status = 429) =>
            /\ 1 <= req[r].retryAfter /\ req[r].retryAfter <= timeWindowSeconds
            /\ ClientRetryAfter(r) = req[r].retryAfter

\* what the code does in place of C26: retryAfter lies in 0..timeWindowSeconds,
\* and it is 0 only when the oldest timestamp has expired by the second
\* reading of the clock
RetryAfterInRange ==
    \A r \in Reqs :
        (req[r].pc = "done" /\ req[r].status = 429) =>
            /\ 0 <= req[r].retryAfter /\ req[r].retryAfter <= timeWindowSeconds
            /\ req[r].retryAfter = 0 =>
                  /\ ~isRateLimited(requestTimestamps, now).result
                  /\ ClientRetryAfter(r) = 60

\* a request is answered 429 by this step
Rejects(r) == req[r].pc = "idle" /\ req'[r].pc = "done" /\ req'[r].status = 429

\* C27: when the evaluate endpoint answers 429 with retryAfter = r and the
\* limiter records no other request in the meantime, a request that arrives
\* r seconds after the answer, or later, is not rate-limited.
C27_HintLongEnough ==
    [][\A r \in Reqs :
         Rejects(r) =>
            \A later \in {0, 1, 1000, timeWindow} :
               ~isRateLimited(requestTimestamps',
                              now' + req'[r].retryAfter * 1000 + later).result]_vars

\* a request was answered 429 with a retryAfter of a second or more; the
\* limiter is saturated at the instant of the answer and 1 ms before the hint
\* runs out, and admits a request when the hint has run out
C27_Witness ==
    \E r \in Reqs :
        /\ req[r].pc = "done" /\ req[r].status = 429
        /\ req[r].retryAfter >= 1
        /\ isRateLimited(requestTimestamps, now).result
        /\ isRateLimited(requestTimestamps, now + req[r].retryAfter * 1000 - 1000).result
        /\ ~isRateLimited(requestTimestamps, now + req[r].retryAfter * 1000).result

\* the item in hand, as an index of stats
Current == batch.i + 1

\* this step takes a fetch of the item in hand into the catch block
AttemptFails ==
    /\ batch.pc = "fetch"
    /\ batch'.stats[Current].failed = batch.stats[Current].failed + 1

\* the request in flight follows a failure of a request for the same item
RetriesAfterFailure ==
    /\ batch.pc = "fetch"
    /\ batch.last.item = batch.i
    /\ batch.last.status # 429 /\ ~Ok(batch.last.status)

ThirdFailureSkips ==
    \E k \in Items :
        /\ batch.stats[k].failed = 3 /\ batch.stats[k].state = "SKIPPED"
        /\ batch.pc # "backoff"

\* this step sends a request
SendsRequest == batch'.inFlight = batch.inFlight + 1

\* C23: before a request for the item at index i >= 1 the orchestrator waits
\* min(2000 + floor(i/5)*1000, 6000) ms, and before a request for the first
\* item (i = 0) it applies no such delay; the delay does not decrease with i
\* and never exceeds 6000 ms.
C23_InterRequestDelay ==
    /\ [](batch.pc = "delay" =>
            /\ batch.i >= 1
            /\ batch.timer = Min(2000 + (batch.i \div 5) * 1000, 6000)
            /\ batch.timer <= 6000)
    /\ [](\A i \in 1..(Len(batch.solutions) - 2) : baseDelay(i) <= baseDelay(i + 1))
    /\ [][SendsRequest =>
            IF batch'.i = 0
            THEN batch.pc # "delay"
            ELSE /\ batch.pc = "delay" /\ batch.i = batch'.i
                 /\ batch'.sentAfter >=
                       batch.sinceAnswer + Min(2000 + (batch.i \div 5) * 1000, 6000)]_vars

\* the orchestrator waits 6000 ms before the request for the item at index
\* 25, for which 2000 + floor(i/5)*1000 is 7000
C23_Witness ==
    /\ batch.pc = "delay"
    /\ batch.i = 25
    /\ batch.timer = 6000
    /\ 2000 + (batch.i \div 5) * 1000 > 6000

\* the requests of the run so far
Requests ==
    LET RECURSIVE Upto(_)
        Upto(k) == IF k = 0 THEN 0 ELSE Upto(k - 1) + batch.stats[k].requests
    IN  Upto(Len(batch.solutions))

\* C25: evaluateAll issues at most 3 requests per item, the requests
\* answered 429 included, so at most 3*N requests for N items; and when every
\* request returns, a run that was started reaches its end and sets
\* inProgress to false, also when every request is answered 429.
C25_RunTerminates ==
    /\ [](\A k \in Items : batch.stats[k].requests <= maxAttempts)
    /\ [](Requests <= maxAttempts * Len(batch.solutions))
    /\ [](batch.pc = "complete" => ~batch.inProgress /\ batch.inFlight = 0)
    /\ batch.inProgress ~> (batch.pc = "complete" /\ ~batch.inProgress)

\* the run over two items has ended after 3*2 requests, each answered 429
C25_Witness ==
    /\ batch.pc = "complete" /\ ~batch.inProgress
    /\ Len(batch.solutions) >= 2
    /\ \A k \in Items : batch.stats[k].limited = maxAttempts
    /\ Requests = maxAttempts * Len(batch.solutions)

\* this step ends the upload u
RunEnds(u) == runs[u].pc = "awaiting" /\ runs'[u].pc = "answered"

\* C28: natural-key uniqueness survives uploads that are in flight together:
\* no natural key ever has two records, and when an upload ends each key of
\* its file has exactly one record, also when another upload that was in
\* flight at the same time upserts the same, previously absent key.
C28_NaturalKeyUnique ==
    /\ [](\A k \in Keys : Len(RecordsUnder(solutions, k)) <= 1)
    /\ [][\A u \in Runs :
            RunEnds(u) =>
               \A k \in FileKeys(runs[u].file) : Len(RecordsUnder(solutions', k)) = 1]_vars

\* two uploads were in flight together, both with the key S1 in their file
\* and the store empty when they began; both have ended, one of them created
\* the record and the other updated it
C28_Witness ==
    /\ runs[1].pc = "answered" /\ runs[2].pc = "answered"
    /\ runs[1].overlapped /\ runs[2].overlapped
    /\ "S1" \in FileKeys(runs[1].file) \cap FileKeys(runs[2].file)
    /\ runs[1].created + runs[2].created = 1
    /\ solutionId = 2
    /\ Len(RecordsUnder(solutions, "S1")) = 1

====
